---- MODULE Spec2Model ----
(***************************************************************************)
(* PRT precomputation (src/prt/src/prt.cpp): the ProjEnv cubemap projector *)
(* and the PRTIntegrator (constructor, preprocess, Li).                    *)
(*                                                                         *)
(* Numbers.  A float or double x is the integer x * Unit, rounded toward 0; *)
(* a product of two of them is rounded once, by FMul.  A direction is a    *)
(* point of the                                                            *)
(* octahedron |x| + |y| + |z| = Unit, so that a component along a          *)
(* coordinate axis is the cosine to that axis in the same fixed point.     *)
(* Arrays keep the source's 0-based indices: they are functions on 0..n-1. *)
(***************************************************************************)
EXTENDS Integers, Sequences, FiniteSets, TLC

\* ------------------------------------------------------------------------
\* Bounds of the explored inputs
\* ------------------------------------------------------------------------
MaxSampleCount == 4
MaxBounce == 2
MaxSampleCountTwoRuns == 2
MaxBounceTwoRuns == 1

\* ------------------------------------------------------------------------
\* Arithmetic
\* ------------------------------------------------------------------------
Unit == 64

Abs(x) == IF x < 0 THEN 0 - x ELSE x

\* a / n rounded toward 0
Quot(a, n) == IF a < 0 THEN 0 - ((0 - a) \div n) ELSE a \div n

FMul(a, b) == Quot(a * b, Unit)

\* 4.0 * M_PI
FourPi == Quot(Unit * 12566, 1000)

Arr(s) == [k \in 0..(Len(s) - 1) |-> s[k + 1]]

RECURSIVE SumTo(_, _)
SumTo(fn, n) == IF n < 0 THEN 0 ELSE fn[n] + SumTo(fn, n - 1)

FloorSqrt(n) == CHOOSE s \in 0..n : s * s <= n /\ (s + 1) * (s + 1) > n

SHOrder == 2

SHCoeffLength == (SHOrder + 1) * (SHOrder + 1)

Coeffs == 0..(SHCoeffLength - 1)

ZeroCoeffs == [j \in Coeffs |-> 0]

\* An entry that was allocated and never assigned
Uninit == <<>>

GarbageValues == {0 - 1, 0, 1}

\* ------------------------------------------------------------------------
\* sh:: library (not part of src/): the basis functions on a direction, up to
\* their positive normalisation factors, and the (phi, theta) -> vector map
\* ------------------------------------------------------------------------
EvalSH(j, d) ==
    CASE j = 0 -> Quot(Unit * 282, 1000)
      [] j = 1 -> d[1]
      [] j = 2 -> d[2]
      [] j = 3 -> d[0]
      [] j = 4 -> FMul(d[0], d[1])
      [] j = 5 -> FMul(d[1], d[2])
      [] j = 6 -> FMul(2 * d[2], d[2]) - FMul(d[0], d[0]) - FMul(d[1], d[1])
      [] j = 7 -> FMul(d[0], d[2])
      [] j = 8 -> FMul(d[0], d[0]) - FMul(d[1], d[1])

\* alpha4 = 4 * side * alpha, beta4 = 4 * side * beta.  cos(theta) = 2 alpha - 1;
\* phi = 2 pi beta falls in the quadrant q of beta, and the horizontal part of
\* the direction is split between the two axes bounding that quadrant.
ToVector(alpha4, beta4, side) ==
    LET z == Quot((2 * alpha4 - 4 * side) * Unit, 4 * side)
        h == Unit - Abs(z)
        q == beta4 \div side
        r == beta4 % side
        far == (h * r) \div side
        near == h - far
    IN  CASE q = 0 -> Arr(<<near, far, z>>)
          [] q = 1 -> Arr(<<0 - far, near, z>>)
          [] q = 2 -> Arr(<<0 - near, 0 - far, z>>)
          [] OTHER -> Arr(<<far, 0 - near, z>>)

Dot(a, b) == a[0] * b[0] + a[1] * b[1] + a[2] * b[2]

\* v.normalized() for the vectors the program normalises
Normalized(v) ==
    LET n1 == Abs(v[0]) + Abs(v[1]) + Abs(v[2])
    IN  IF n1 = 0 THEN v ELSE [k \in 0..2 |-> Quot(v[k] * Unit, n1)]

\* wi.normalized().dot(n.normalized())
Cosain(wi, n) == Quot(Dot(Normalized(wi), Normalized(n)), Unit)

\* ------------------------------------------------------------------------
\* The scene handed to preprocess and Li: mesh 0 and the ray query
\* ------------------------------------------------------------------------
VertexNormals == Arr(<< Arr(<<0, 0, 5>>), Arr(<<0, 0, 3>>), Arr(<<0, 0, 0 - 2>>) >>)

VertexCount == Cardinality(DOMAIN VertexNormals)

Vertices == 0..(VertexCount - 1)

\* mesh->getIndices(): F(k, f) is MeshIndices[f][k]
MeshIndices == Arr(<< Arr(<<0, 1, 2>>), Arr(<<2, 1, 0>>) >>)

TriangleCount == Cardinality(DOMAIN MeshIndices)

NoHit == [hit |-> FALSE, tri_index |-> <<>>, bary |-> <<>>]

\* The barycentric weights are given in eighths
Its(f, b0, b1, b2) ==
    [hit |-> TRUE, tri_index |-> MeshIndices[f],
     bary |-> Arr(<<Quot(b0 * Unit, 8), Quot(b1 * Unit, 8), Quot(b2 * Unit, 8)>>)]

\* Points of the scene are named by a number: vertex v of mesh 0 is at point v,
\* the camera at the next one
CameraPosition == VertexCount

\* The directions of the primary rays
CameraRays == {Arr(<<0, 0, 1>>), Arr(<<0, 0, 0 - 1>>), Arr(<<0, 1, 0 - 1>>)}

Ray3f(o, d) == <<o, d>>

\* scene->rayIntersect(ray, its): NoHit, or the Intersection it fills in
rayIntersect(ray) ==
    LET origin == ray[1]
        dir == ray[2]
    IN  CASE origin = CameraPosition /\ dir[2] < 0 /\ dir[1] = 0 -> Its(0, 2, 3, 3)
          [] origin = CameraPosition /\ dir[2] < 0 /\ dir[1] > 0 -> Its(1, 4, 4, 0)
          [] origin = 0 /\ dir[2] > 0 /\ dir[1] > 0 -> Its(1, 4, 4, 0)
          [] origin = 0 /\ dir[2] > 0 /\ dir[1] <= 0 -> Its(0, 2, 2, 4)
          [] origin = 2 /\ dir[2] < 0 /\ dir[1] < 0 -> Its(0, 4, 0, 4)
          [] OTHER -> NoHit

\* ------------------------------------------------------------------------
\* namespace ProjEnv
\* ------------------------------------------------------------------------
cubemapNames ==
    Arr(<<"negx.jpg", "posx.jpg", "posy.jpg", "negy.jpg", "posz.jpg", "negz.jpg">>)

cubemapFaceDirections ==
    Arr(<< Arr(<< Arr(<<0, 0, 1>>), Arr(<<0, 0 - 1, 0>>), Arr(<<0 - 1, 0, 0>>) >>),
           Arr(<< Arr(<<0, 0, 1>>), Arr(<<0, 0 - 1, 0>>), Arr(<<1, 0, 0>>) >>),
           Arr(<< Arr(<<1, 0, 0>>), Arr(<<0, 0, 0 - 1>>), Arr(<<0, 0 - 1, 0>>) >>),
           Arr(<< Arr(<<1, 0, 0>>), Arr(<<0, 0, 1>>), Arr(<<0, 1, 0>>) >>),
           Arr(<< Arr(<<0 - 1, 0, 0>>), Arr(<<0, 0 - 1, 0>>), Arr(<<0, 0, 0 - 1>>) >>),
           Arr(<< Arr(<<1, 0, 0>>), Arr(<<0, 0 - 1, 0>>), Arr(<<0, 0, 1>>) >>) >>)

\* The cubemap directory: what stbi_loadf(filename, &w, &h, &c, 3) can return
\* for a file.  A shape is <<w, h, c>>; the buffer always has 3 floats a pixel.
Missing == <<"missing">>

ImageShapes == {<<1, 1, 3>>, <<2, 2, 3>>, <<1, 1, 4>>}

FaceRadiance(name) ==
    CASE name = "negx.jpg" -> <<Unit, 0, 0>>
      [] name = "posx.jpg" -> <<0, Unit, 0>>
      [] name = "posy.jpg" -> <<0, 0, Unit>>
      [] name = "negy.jpg" -> <<Unit, Unit, 0>>
      [] name = "posz.jpg" -> <<2 * Unit, 2 * Unit, 2 * Unit>>
      [] name = "negz.jpg" -> <<0, Unit, Unit>>

stbi_loadf(name, shape) ==
    [idx \in 0..(3 * shape[1] * shape[2] - 1) |->
        FaceRadiance(name)[(idx % 3) + 1] + (idx \div 3)]

Null == <<>>

\* The solid angle of texel (x, y).  The texels of a face share the face's
\* 4 pi / 6 equally for the shapes of ImageShapes (one texel, or four
\* symmetric ones), which is what the atan2 formula gives there.
CalcArea(x, y, width, height) == Quot(FourPi, 6 * width * height)

TexelDir(i, x, y, width, height) ==
    LET u == Quot((2 * x + 1 - width) * Unit, width)
        v == Quot((2 * y + 1 - height) * Unit, height)
        fd == cubemapFaceDirections[i]
    IN  Normalized([k \in 0..2 |-> fd[0][k] * u + fd[1][k] * v + fd[2][k] * Unit])

\* envCoeffs[j][c]: the sum over the faces i and their texels (x, y), in the
\* loops' order, of EvalSH * Le * deltaW
PrecomputeCubemapSH(images, width, height, channel) ==
    LET per == width * height
        term(j, c, n) ==
            LET i == n \div per
                y == (n % per) \div width
                x == (n % per) % width
                index == (y * width + x) * channel
                Le == images[i][index + c]
                deltaW == CalcArea(x, y, width, height)
            IN  FMul(FMul(EvalSH(j, TexelDir(i, x, y, width, height)), Le), deltaW)
    IN  [j \in Coeffs |->
            [c \in 0..2 |-> SumTo([n \in 0..(6 * per - 1) |-> term(j, c, n)], 6 * per - 1)]]

\* ------------------------------------------------------------------------
\* Text output: operator<< of a float keeps 6 significant decimal digits
\* ------------------------------------------------------------------------
RECURSIVE Round6(_, _)
Round6(m, e) ==
    IF Abs(m) < 1000000 THEN [mant |-> m, exp |-> e]
    ELSE Round6((IF m < 0 THEN 0 - 1 ELSE 1) * ((Abs(m) + 5) \div 10), e + 1)

\* x / Unit in thousandths, then rounded to 6 digits
FormatFloat(x) == Round6(Quot(x * 1000, Unit), 0 - 3)

FormatInt(n) == [mant |-> n, exp |-> 0]

NotOpened == <<"not opened">>

\* ------------------------------------------------------------------------
\* Sampling
\* ------------------------------------------------------------------------
Seeds == {0, 1}

\* The first two rng(gen) values of std::mt19937 gen(seed): level k stands for
\* (2 k + 1) / 4 in [0, 1)
Rng(seed) == IF seed = 0 THEN <<0, 1>> ELSE <<1, 0>>

\* ToVector(phi, theta) with alpha = (t + rng) / sample_side,
\* beta = (p + rng) / sample_side, phi = 2 pi beta, theta = acos(2 alpha - 1)
SampleDir(t, p, seed, sample_side) ==
    ToVector(4 * t + 2 * Rng(seed)[1] + 1, 4 * p + 2 * Rng(seed)[2] + 1, sample_side)

SampleSide(sampleCount) == FloorSqrt(sampleCount)

PolicyNames == {"unshadowed", "shadowed", "interreflection", "pathtracer"}

\* ------------------------------------------------------------------------
\* class PRTIntegrator: state
\* ------------------------------------------------------------------------
VARIABLES
    pc,                   \* where the program is
    props,                \* the PropertyList given to the constructor
    cubemapDir,           \* the cubemap directory, as far as it has been read
    run,                  \* 1: first run of the program, 2: a second run on the same inputs
    firstRun,             \* the files the first run left
    m_Type, m_Bounce, m_SampleCount, m_TransportSHCoeffs, m_LightCoeffs,
    lightFout, fout,      \* light.txt and transport.txt: their lines
    images, width, height, channel, loadIdx,      \* LoadCubemapImages
    i, bounceCount, extraCoeffsBuffer, ExtraCoeffs, t, p, f,   \* preprocess locals
    sceneQueried,         \* scene->rayIntersect has been called
    seedings,             \* generators seeded from std::random_device so far
    samplesDrawn,         \* sample directions drawn for the current vertex
    lastWeight,           \* numerator and divisor of the last weight applied
    prevTransport,        \* m_TransportSHCoeffs when the current bounce began
    baseTransport,        \* m_TransportSHCoeffs when the base pass ended
    lastRead,             \* the last transport columns read by a bounce sample
    lastCast,             \* direction of the last bounce sample, and whether its ray was cast
    commits,              \* the bounces committed, in order
    liResult              \* what the last Li call returned

locals == <<images, width, height, channel, loadIdx, i, bounceCount,
            extraCoeffsBuffer, ExtraCoeffs, t, p, f>>

members == <<m_Type, m_Bounce, m_SampleCount, m_TransportSHCoeffs, m_LightCoeffs>>

files == <<lightFout, fout>>

ghosts == <<sceneQueried, seedings, samplesDrawn, lastWeight, prevTransport,
            baseTransport, lastRead, lastCast, commits>>

env == <<props, cubemapDir, run, firstRun>>

vars == <<pc, env, members, files, locals, ghosts, liResult>>

None == <<>>

EmptyMatrix == <<>>

NoImages == [k \in 0..5 |-> Null]

Unread == <<>>

FreshLocals ==
    /\ images = NoImages /\ width = 0 /\ height = 0 /\ channel = 0 /\ loadIdx = 0
    /\ i = 0 /\ bounceCount = 0 /\ extraCoeffsBuffer = EmptyMatrix
    /\ ExtraCoeffs = None /\ t = 0 /\ p = 0 /\ f = 0

FreshGhosts ==
    /\ sceneQueried = FALSE /\ seedings = 0 /\ samplesDrawn = 0 /\ lastWeight = None
    /\ prevTransport = None /\ baseTransport = None /\ lastRead = None /\ lastCast = None
    /\ commits = <<>>

Init ==
    /\ pc = "start"
    /\ props = None
    /\ cubemapDir = [k \in 0..5 |-> Unread]
    /\ run = 1
    /\ firstRun = None
    /\ m_Type = "uninitialized" /\ m_Bounce = 1 /\ m_SampleCount = 100
    /\ m_TransportSHCoeffs = EmptyMatrix /\ m_LightCoeffs = EmptyMatrix
    /\ lightFout = NotOpened /\ fout = NotOpened
    /\ FreshLocals
    /\ FreshGhosts
    /\ liResult = None

\* ------------------------------------------------------------------------
\* PRTIntegrator(const PropertyList& props)
\* ------------------------------------------------------------------------
\* Constructor with a default policy in place of the exception
ConstructorDefaulting(type, sampleCount, bounce) ==
    /\ pc = "start"
    /\ props' = [type |-> type, bounce |-> bounce, PRTSampleCount |-> sampleCount]
    /\ m_SampleCount' = sampleCount
    /\ pc' = "constructed"
    /\ CASE type = "shadowed" -> m_Type' = "Shadowed" /\ UNCHANGED m_Bounce
         [] type = "interreflection" -> m_Type' = "Interreflection" /\ m_Bounce' = bounce
         [] OTHER -> m_Type' = "Unshadowed" /\ UNCHANGED m_Bounce
    /\ UNCHANGED <<cubemapDir, run, firstRun, m_TransportSHCoeffs, m_LightCoeffs,
                   files, locals, ghosts, liResult>>

Constructor(type, sampleCount, bounce) ==
    /\ pc = "start"
    /\ props' = [type |-> type, bounce |-> bounce, PRTSampleCount |-> sampleCount]
    /\ m_SampleCount' = sampleCount
    /\ CASE type = "unshadowed" ->
              /\ m_Type' = "Unshadowed" /\ pc' = "constructed" /\ UNCHANGED m_Bounce
         [] type = "shadowed" ->
              /\ m_Type' = "Shadowed" /\ pc' = "constructed" /\ UNCHANGED m_Bounce
         [] type = "interreflection" ->
              /\ m_Type' = "Interreflection" /\ m_Bounce' = bounce /\ pc' = "constructed"
         [] OTHER ->
              /\ pc' = "NoriException" /\ UNCHANGED <<m_Type, m_Bounce>>
    /\ UNCHANGED <<cubemapDir, run, firstRun, m_TransportSHCoeffs, m_LightCoeffs,
                   files, locals, ghosts, liResult>>

Construct ==
    \E type \in PolicyNames, sampleCount \in 1..MaxSampleCount, bounce \in 0..MaxBounce :
        Constructor(type, sampleCount, bounce)

\* ------------------------------------------------------------------------
\* preprocess: opening the output files, loading the cubemap
\* ------------------------------------------------------------------------
OpenOutputs ==
    /\ pc = "constructed"
    /\ lightFout' = <<>>
    /\ fout' = <<>>
    /\ loadIdx' = 0
    /\ images' = NoImages
    /\ pc' = "load"
    /\ UNCHANGED <<env, members, width, height, channel, i, bounceCount,
                   extraCoeffsBuffer, ExtraCoeffs, t, p, f, ghosts, liResult>>

\* One turn of the loop of LoadCubemapImages; `found` is what the file holds
LoadFace(found) ==
    /\ pc = "load"
    /\ loadIdx < 6
    /\ cubemapDir[loadIdx] \in {Unread, found}
    /\ cubemapDir' = [cubemapDir EXCEPT ![loadIdx] = found]
    /\ IF found = Missing
       THEN /\ pc' = "exit"
            /\ UNCHANGED <<images, width, height, channel, loadIdx>>
       ELSE IF loadIdx = 0
       THEN /\ width' = found[1] /\ height' = found[2] /\ channel' = found[3]
            /\ images' = [images EXCEPT ![loadIdx] = stbi_loadf(cubemapNames[loadIdx], found)]
            /\ loadIdx' = loadIdx + 1
            /\ UNCHANGED pc
       ELSE IF found[1] # width \/ found[2] # height \/ found[3] # channel
       THEN /\ pc' = "exit"
            /\ UNCHANGED <<images, width, height, channel, loadIdx>>
       ELSE /\ images' = [images EXCEPT ![loadIdx] = stbi_loadf(cubemapNames[loadIdx], found)]
            /\ loadIdx' = loadIdx + 1
            /\ UNCHANGED <<pc, width, height, channel>>
    /\ UNCHANGED <<props, run, firstRun, members, files, i, bounceCount,
                   extraCoeffsBuffer, ExtraCoeffs, t, p, f, ghosts, liResult>>

LoadCubemapImages == \E found \in ImageShapes \cup {Missing} : LoadFace(found)

\* envCoeffs, light.txt, m_LightCoeffs; then the resize of the transport
\* matrix and the first line of transport.txt
LightLines(envCoeffs) ==
    [k \in 1..SHCoeffLength |->
        <<FormatFloat(envCoeffs[k - 1][0]), FormatFloat(envCoeffs[k - 1][1]),
          FormatFloat(envCoeffs[k - 1][2])>>]

LightMatrix(envCoeffs) == [c \in 0..2 |-> [j \in Coeffs |-> envCoeffs[j][c]]]

ProjectLight ==
    /\ pc = "load"
    /\ loadIdx = 6
    /\ LET envCoeffs == PrecomputeCubemapSH(images, width, height, channel)
       IN  /\ lightFout' = lightFout \o LightLines(envCoeffs)
           /\ m_LightCoeffs' = LightMatrix(envCoeffs)
    /\ m_TransportSHCoeffs' = [v \in Vertices |-> Uninit]
    /\ fout' = Append(fout, <<FormatInt(VertexCount)>>)
    /\ i' = 0
    /\ pc' = "transport"
    /\ UNCHANGED <<env, m_Type, m_Bounce, m_SampleCount, images, width, height, channel,
                   loadIdx, bounceCount, extraCoeffsBuffer, ExtraCoeffs, t, p, f,
                   ghosts, liResult>>

\* ------------------------------------------------------------------------
\* preprocess: the transport projection (base pass)
\* ------------------------------------------------------------------------
Cells(sample_side) == (0..(sample_side - 1)) \X (0..(sample_side - 1))

\* shFunc without the visibility test of the shadowed branch
shFuncNoVisibility(v, wi) ==
    LET cosain == Cosain(wi, VertexNormals[v])
    IN  IF cosain > 0 THEN cosain ELSE 0

\* The lambda shFunc of vertex v, on the direction wi
shFunc(v, wi) ==
    LET cosain == Cosain(wi, VertexNormals[v])
        sampleRay == Ray3f(v, wi)
    IN  IF m_Type = "Unshadowed"
        THEN (IF cosain > 0 THEN cosain ELSE 0)
        ELSE (IF cosain > 0 /\ ~rayIntersect(sampleRay).hit THEN cosain ELSE 0)

\* shFunc casting the ray under every policy
shFuncQueriesAlways(v, wi) == Cosain(wi, VertexNormals[v]) > 0

\* shFunc calls scene->rayIntersect on wi (the && does not evaluate it
\* when cosain <= 0)
shFuncQueries(v, wi) == m_Type # "Unshadowed" /\ Cosain(wi, VertexNormals[v]) > 0

\* sh::ProjectFunction(order, func, sample_count) for func the lambda shFunc
\* of vertex v: one direction per cell of
\* the sample_side x sample_side grid, seedOf[cell] giving its two randoms;
\* coefficient j is the sum of EvalSH(j, wi) * func(wi), weighted by 4 pi / N
ProjectFunction(v, sample_count, seedOf) ==
    LET sample_side == SampleSide(sample_count)
        weight == Quot(FourPi, sample_count)
        dir(n) == SampleDir(n \div sample_side, n % sample_side,
                            seedOf[<<n \div sample_side, n % sample_side>>], sample_side)
    IN  [j \in Coeffs |->
            FMul(SumTo([n \in 0..(sample_side * sample_side - 1) |->
                            FMul(EvalSH(j, dir(n)), shFunc(v, dir(n)))],
                       sample_side * sample_side - 1),
                 weight)]

ProjectVertex(seedOf) ==
    /\ pc = "transport"
    /\ i < VertexCount
    /\ LET shCoeff == ProjectFunction(i, m_SampleCount, seedOf)
       IN  m_TransportSHCoeffs' = [m_TransportSHCoeffs EXCEPT ![i] = shCoeff]
    /\ sceneQueried' =
          (sceneQueried \/ \E c \in DOMAIN seedOf :
               shFuncQueries(i, SampleDir(c[1], c[2], seedOf[c], SampleSide(m_SampleCount))))
    /\ i' = i + 1
    /\ UNCHANGED <<pc, env, m_Type, m_Bounce, m_SampleCount, m_LightCoeffs, files,
                   images, width, height, channel, loadIdx, bounceCount,
                   extraCoeffsBuffer, ExtraCoeffs, t, p, f, seedings, samplesDrawn,
                   lastWeight, prevTransport, baseTransport, lastRead, lastCast, commits, liResult>>

ProjectTransport ==
    /\ pc = "transport"
    /\ \E seedOf \in [Cells(SampleSide(m_SampleCount)) -> Seeds] : ProjectVertex(seedOf)

\* The end of the vertex loop and the test of m_Type in front of the bounces
TransportDone ==
    /\ pc = "transport"
    /\ i = VertexCount
    /\ baseTransport' = m_TransportSHCoeffs
    /\ IF m_Type = "Interreflection"
       THEN /\ bounceCount' = 1 /\ pc' = "bounce"
       ELSE /\ pc' = "save" /\ UNCHANGED bounceCount
    /\ f' = 0
    /\ i' = 0
    /\ UNCHANGED <<env, members, files, images, width, height, channel, loadIdx,
                   extraCoeffsBuffer, ExtraCoeffs, t, p, sceneQueried, seedings,
                   samplesDrawn, lastWeight, prevTransport, lastRead, lastCast, commits, liResult>>

\* ------------------------------------------------------------------------
\* preprocess: the interreflection bounces
\* ------------------------------------------------------------------------
\* for (bounceCount = 1; bounceCount <= m_Bounce; ...): the test, and the
\* declaration of extraCoeffsBuffer (Eigen leaves its entries uninitialised)
\* BounceBegin with the loop test bounceCount < m_Bounce
BounceBeginStrict ==
    /\ pc = "bounce"
    /\ IF bounceCount < m_Bounce
       THEN /\ extraCoeffsBuffer' = [v \in Vertices |-> Uninit]
            /\ prevTransport' = m_TransportSHCoeffs
            /\ lastRead' = None
            /\ lastCast' = None
            /\ i' = 0
            /\ pc' = "vertex"
            /\ UNCHANGED f
       ELSE /\ pc' = "save"
            /\ f' = 0
            /\ UNCHANGED <<extraCoeffsBuffer, prevTransport, lastRead, lastCast, i>>
    /\ UNCHANGED <<env, members, files, images, width, height, channel, loadIdx,
                   bounceCount, ExtraCoeffs, t, p, sceneQueried, seedings, samplesDrawn,
                   lastWeight, baseTransport, commits, liResult>>

BounceBegin ==
    /\ pc = "bounce"
    /\ IF bounceCount <= m_Bounce
       THEN /\ extraCoeffsBuffer' = [v \in Vertices |-> Uninit]
            /\ prevTransport' = m_TransportSHCoeffs
            /\ lastRead' = None
            /\ lastCast' = None
            /\ i' = 0
            /\ pc' = "vertex"
            /\ UNCHANGED f
       ELSE /\ pc' = "save"
            /\ f' = 0
            /\ UNCHANGED <<extraCoeffsBuffer, prevTransport, lastRead, lastCast, i>>
    /\ UNCHANGED <<env, members, files, images, width, height, channel, loadIdx,
                   bounceCount, ExtraCoeffs, t, p, sceneQueried, seedings, samplesDrawn,
                   lastWeight, baseTransport, commits, liResult>>

\* The head of the vertex loop: ExtraCoeffs->assign(SHCoeffLength, 0.0)
\* VertexBegin with the accumulator kept from the vertex before
VertexBeginKeep ==
    /\ pc = "vertex"
    /\ i < VertexCount
    /\ ExtraCoeffs' = IF i = 0 THEN ZeroCoeffs ELSE extraCoeffsBuffer[i - 1]
    /\ t' = 0
    /\ p' = 0
    /\ samplesDrawn' = 0
    /\ pc' = "sample"
    /\ UNCHANGED <<env, members, files, images, width, height, channel, loadIdx, i,
                   bounceCount, extraCoeffsBuffer, f, sceneQueried, seedings, lastWeight,
                   prevTransport, baseTransport, lastRead, lastCast, commits, liResult>>

VertexBegin ==
    /\ pc = "vertex"
    /\ i < VertexCount
    /\ ExtraCoeffs' = ZeroCoeffs
    /\ t' = 0
    /\ p' = 0
    /\ samplesDrawn' = 0
    /\ pc' = "sample"
    /\ UNCHANGED <<env, members, files, images, width, height, channel, loadIdx, i,
                   bounceCount, extraCoeffsBuffer, f, sceneQueried, seedings, lastWeight,
                   prevTransport, baseTransport, lastRead, lastCast, commits, liResult>>

\* interpolateSH of coefficient j at the hit its
InterpolateSH(transport, its, j) ==
    FMul(transport[its.tri_index[0]][j], its.bary[0])
    + FMul(transport[its.tri_index[1]][j], its.bary[1])
    + FMul(transport[its.tri_index[2]][j], its.bary[2])

\* Accumulate without the factor cosain
AccumulateUnweighted(extra, transport, its, cosain) ==
    [j \in Coeffs |-> extra[j] + InterpolateSH(transport, its, j)]

\* (*ExtraCoeffs)[j] += interpolateSH * cosain, for every j
Accumulate(extra, transport, its, cosain) ==
    [j \in Coeffs |-> extra[j] + FMul(InterpolateSH(transport, its, j), cosain)]

\* The body of the two sample loops, for the cell (t, p), with the value rd()
\* returned for the seed
Sample(seed) ==
    /\ pc = "sample"
    /\ t < SampleSide(m_SampleCount)
    /\ LET sample_side == SampleSide(m_SampleCount)
           wi == SampleDir(t, p, seed, sample_side)
           cosain == Cosain(wi, VertexNormals[i])
           sampleRay == Ray3f(i, wi)
           its == rayIntersect(sampleRay)
       IN  /\ sceneQueried' = (sceneQueried \/ cosain > 0)
           /\ IF cosain > 0 /\ its.hit
              THEN /\ ExtraCoeffs' = Accumulate(ExtraCoeffs, m_TransportSHCoeffs, its, cosain)
                   /\ lastRead' = [idx |-> its.tri_index,
                                   cols |-> [k \in 0..2 |->
                                               m_TransportSHCoeffs[its.tri_index[k]]]]
              ELSE UNCHANGED <<ExtraCoeffs, lastRead>>
           /\ lastCast' = <<wi, cosain > 0>>
           /\ IF p + 1 < sample_side
              THEN /\ p' = p + 1 /\ UNCHANGED t
              ELSE /\ p' = 0 /\ t' = t + 1
    /\ seedings' = seedings + 1
    /\ samplesDrawn' = samplesDrawn + 1
    /\ UNCHANGED <<pc, env, members, files, images, width, height, channel, loadIdx, i,
                   bounceCount, extraCoeffsBuffer, f, lastWeight, prevTransport,
                   baseTransport, commits, liResult>>

BounceSample == \E seed \in Seeds : Sample(seed)

\* The divisor of  weight = 4.0 * M_PI / (sample_side * sample_side)
\* The divisor 4 pi / N would have
WeightDivisorN(sampleCount) == sampleCount

WeightDivisor(sampleCount) == SampleSide(sampleCount) * SampleSide(sampleCount)

\* (*ExtraCoeffs)[j] *= weight, for every j
Scale(extra, sampleCount) ==
    [j \in Coeffs |-> FMul(extra[j], Quot(FourPi, WeightDivisor(sampleCount)))]

\* VertexEnd adding the column to the running matrix at once
VertexEndInPlace ==
    /\ pc = "sample"
    /\ t >= SampleSide(m_SampleCount)
    /\ m_TransportSHCoeffs' =
          [m_TransportSHCoeffs EXCEPT ![i] =
              [j \in Coeffs |-> @[j] + Scale(ExtraCoeffs, m_SampleCount)[j]]]
    /\ extraCoeffsBuffer' = [extraCoeffsBuffer EXCEPT ![i] = ZeroCoeffs]
    /\ lastWeight' = [extra |-> ExtraCoeffs, num |-> FourPi,
                      div |-> WeightDivisor(m_SampleCount), samples |-> samplesDrawn]
    /\ ExtraCoeffs' = None
    /\ lastCast' = None
    /\ t' = 0
    /\ p' = 0
    /\ i' = i + 1
    /\ pc' = "vertex"
    /\ UNCHANGED <<env, m_Type, m_Bounce, m_SampleCount, m_LightCoeffs, files, images,
                   width, height, channel, loadIdx, bounceCount, f, sceneQueried, seedings,
                   samplesDrawn, prevTransport, baseTransport, lastRead, commits, liResult>>

\* After the sample loops: the weight, and the column sent into the buffer
VertexEnd ==
    /\ pc = "sample"
    /\ t >= SampleSide(m_SampleCount)
    /\ extraCoeffsBuffer' =
          [extraCoeffsBuffer EXCEPT ![i] = Scale(ExtraCoeffs, m_SampleCount)]
    /\ lastWeight' = [extra |-> ExtraCoeffs, num |-> FourPi,
                      div |-> WeightDivisor(m_SampleCount), samples |-> samplesDrawn]
    /\ ExtraCoeffs' = None
    /\ lastCast' = None
    /\ t' = 0
    /\ p' = 0
    /\ i' = i + 1
    /\ pc' = "vertex"
    /\ UNCHANGED <<env, members, files, images, width, height, channel, loadIdx,
                   bounceCount, f, sceneQueried, seedings, samplesDrawn, prevTransport,
                   baseTransport, lastRead, commits, liResult>>

\* MatrixAdd with the sign of the buffer flipped
MatrixSub(transport, buffer, garbage) ==
    [v \in Vertices |->
        [j \in Coeffs |->
            transport[v][j] - (IF buffer[v] = Uninit THEN garbage ELSE buffer[v][j])]]

\* m_TransportSHCoeffs + extraCoeffsBuffer; an entry of the buffer that was
\* never assigned holds whatever the allocation held (garbage)
MatrixAdd(transport, buffer, garbage) ==
    [v \in Vertices |->
        [j \in Coeffs |->
            transport[v][j] + (IF buffer[v] = Uninit THEN garbage ELSE buffer[v][j])]]

\* The end of the vertex loop: m_TransportSHCoeffs = m_TransportSHCoeffs + extraCoeffsBuffer
Commit ==
    /\ pc = "vertex"
    /\ i >= VertexCount
    /\ \E garbage \in GarbageValues :
          m_TransportSHCoeffs' = MatrixAdd(m_TransportSHCoeffs, extraCoeffsBuffer, garbage)
    /\ commits' = Append(commits, bounceCount)
    /\ bounceCount' = bounceCount + 1
    /\ extraCoeffsBuffer' = EmptyMatrix
    /\ i' = 0
    /\ pc' = "bounce"
    /\ UNCHANGED <<env, m_Type, m_Bounce, m_SampleCount, m_LightCoeffs, files, images,
                   width, height, channel, loadIdx, ExtraCoeffs, t, p, f, sceneQueried,
                   seedings, samplesDrawn, lastWeight, prevTransport, baseTransport,
                   lastRead, lastCast, liResult>>

\* ------------------------------------------------------------------------
\* preprocess: saving the transport in face format
\* ------------------------------------------------------------------------
TransportLine(transport, idx) == [k \in 1..SHCoeffLength |-> FormatFloat(transport[idx][k - 1])]

\* FaceLines writing the first vertex of the face three times
FaceLinesFirstVertex(transport, face) ==
    LET idx0 == MeshIndices[face][0]
    IN  <<TransportLine(transport, idx0), TransportLine(transport, idx0),
          TransportLine(transport, idx0)>>

FaceLines(transport, face) ==
    LET idx0 == MeshIndices[face][0]
        idx1 == MeshIndices[face][1]
        idx2 == MeshIndices[face][2]
    IN  <<TransportLine(transport, idx0), TransportLine(transport, idx1),
          TransportLine(transport, idx2)>>

SaveFace ==
    /\ pc = "save"
    /\ f < TriangleCount
    /\ fout' = fout \o FaceLines(m_TransportSHCoeffs, f)
    /\ f' = f + 1
    /\ UNCHANGED <<pc, env, members, lightFout, images, width, height, channel, loadIdx,
                   i, bounceCount, extraCoeffsBuffer, ExtraCoeffs, t, p, ghosts, liResult>>

\* preprocess returns: its locals are gone
Return ==
    /\ pc = "save"
    /\ f >= TriangleCount
    /\ pc' = "done"
    /\ images' = NoImages /\ width' = 0 /\ height' = 0 /\ channel' = 0 /\ loadIdx' = 0
    /\ i' = 0 /\ bounceCount' = 0 /\ f' = 0
    /\ UNCHANGED <<env, members, files, extraCoeffsBuffer, ExtraCoeffs, t, p, ghosts,
                   liResult>>

\* ------------------------------------------------------------------------
\* Li
\* ------------------------------------------------------------------------
DotSH(a, b) == SumTo([j \in Coeffs |-> FMul(a[j], b[j])], SHCoeffLength - 1)

\* Radiance without the barycentric interpolation
RadianceFlat(light, transport, its) ==
    [c \in 0..2 |-> DotSH(light[c], transport[its.tri_index[0]])]

Radiance(light, transport, its) ==
    LET sh0 == transport[its.tri_index[0]]
        sh1 == transport[its.tri_index[1]]
        sh2 == transport[its.tri_index[2]]
        c0 == [c \in 0..2 |-> DotSH(light[c], sh0)]
        c1 == [c \in 0..2 |-> DotSH(light[c], sh1)]
        c2 == [c \in 0..2 |-> DotSH(light[c], sh2)]
    IN  [c \in 0..2 |-> FMul(its.bary[0], c0[c]) + FMul(its.bary[1], c1[c])
                        + FMul(its.bary[2], c2[c])]

Color3fZero == [c \in 0..2 |-> 0]

\* LiRay keeping the column of the hit in the matrix
LiRayCaching(ray) ==
    /\ pc = "done"
    /\ LET its == rayIntersect(ray)
       IN  /\ liResult' = [ray |-> ray,
                           color |-> IF ~its.hit THEN Color3fZero
                                     ELSE Radiance(m_LightCoeffs, m_TransportSHCoeffs, its)]
           /\ m_TransportSHCoeffs' =
                 IF ~its.hit THEN m_TransportSHCoeffs
                 ELSE [m_TransportSHCoeffs EXCEPT ![its.tri_index[0]] =
                          [j \in Coeffs |-> InterpolateSH(m_TransportSHCoeffs, its, j)]]
    /\ sceneQueried' = TRUE
    /\ UNCHANGED <<pc, env, m_Type, m_Bounce, m_SampleCount, m_LightCoeffs, files, locals,
                   seedings, samplesDrawn, lastWeight, prevTransport, baseTransport,
                   lastRead, lastCast, commits>>

LiRay(ray) ==
    /\ pc = "done"
    /\ LET its == rayIntersect(ray)
       IN  liResult' = [ray |-> ray,
                        color |-> IF ~its.hit THEN Color3fZero
                                  ELSE Radiance(m_LightCoeffs, m_TransportSHCoeffs, its)]
    /\ sceneQueried' = TRUE
    /\ UNCHANGED <<pc, env, members, files, locals, seedings, samplesDrawn, lastWeight,
                   prevTransport, baseTransport, lastRead, lastCast, commits>>

Li == \E dir \in CameraRays : LiRay(Ray3f(CameraPosition, dir))

\* ------------------------------------------------------------------------
\* The program run a second time on the same scene, cubemap and properties
\* ------------------------------------------------------------------------
SecondRun ==
    /\ pc = "done"
    /\ run = 1
    /\ run' = 2
    /\ firstRun' = [light |-> lightFout, trans |-> fout, base |-> baseTransport]
    /\ pc' = "constructed"
    /\ m_TransportSHCoeffs' = EmptyMatrix /\ m_LightCoeffs' = EmptyMatrix
    /\ lightFout' = NotOpened /\ fout' = NotOpened
    /\ images' = NoImages /\ width' = 0 /\ height' = 0 /\ channel' = 0 /\ loadIdx' = 0
    /\ i' = 0 /\ bounceCount' = 0 /\ extraCoeffsBuffer' = EmptyMatrix
    /\ ExtraCoeffs' = None /\ t' = 0 /\ p' = 0 /\ f' = 0
    /\ sceneQueried' = FALSE /\ seedings' = 0 /\ samplesDrawn' = 0 /\ lastWeight' = None
    /\ prevTransport' = None /\ baseTransport' = None /\ lastRead' = None
    /\ lastCast' = None
    /\ commits' = <<>>
    /\ liResult' = None
    /\ UNCHANGED <<props, cubemapDir, m_Type, m_Bounce, m_SampleCount>>

Next ==
    \/ Construct
    \/ OpenOutputs
    \/ LoadCubemapImages
    \/ ProjectLight
    \/ ProjectTransport
    \/ TransportDone
    \/ BounceBegin
    \/ VertexBegin
    \/ BounceSample
    \/ VertexEnd
    \/ Commit
    \/ SaveFace
    \/ Return
    \/ Li

Spec == Init /\ [][Next]_vars

ConstructTwoRuns ==
    \E type \in PolicyNames, sampleCount \in 1..MaxSampleCountTwoRuns,
       bounce \in 0..MaxBounceTwoRuns :
        Constructor(type, sampleCount, bounce)

NextTwoRuns ==
    \/ ConstructTwoRuns
    \/ OpenOutputs
    \/ LoadCubemapImages
    \/ ProjectLight
    \/ ProjectTransport
    \/ TransportDone
    \/ BounceBegin
    \/ VertexBegin
    \/ BounceSample
    \/ VertexEnd
    \/ Commit
    \/ SaveFace
    \/ Return
    \/ Li
    \/ SecondRun

SpecTwoRuns == Init /\ [][NextTwoRuns]_vars

\* ------------------------------------------------------------------------
\* The vertex loop of a bounce run in any order
\* ------------------------------------------------------------------------
\* The value rd() returns for the sample (t, p) of vertex v in a bounce: the
\* same whatever the order of the vertices
SeedAt(bounce, v, cellT, cellP) == (bounce + v + cellT + cellP) % 2

ConstructAnyOrder ==
    \E sampleCount \in 1..MaxSampleCount, bounce \in 0..MaxBounce :
        Constructor("interreflection", sampleCount, bounce)

\* The head of the vertex loop, for a vertex v not yet processed in the bounce
VertexBeginAnyOrder ==
    /\ pc = "vertex"
    /\ \E v \in Vertices :
          /\ extraCoeffsBuffer[v] = Uninit
          /\ i' = v
    /\ ExtraCoeffs' = ZeroCoeffs
    /\ t' = 0
    /\ p' = 0
    /\ samplesDrawn' = 0
    /\ pc' = "sample"
    /\ UNCHANGED <<env, members, files, images, width, height, channel, loadIdx,
                   bounceCount, extraCoeffsBuffer, f, sceneQueried, seedings, lastWeight,
                   prevTransport, baseTransport, lastRead, lastCast, commits, liResult>>

SampleAnyOrder == pc = "sample" /\ Sample(SeedAt(bounceCount, i, t, p))

\* The commit, once every vertex of the bounce has been processed
CommitAnyOrder ==
    /\ pc = "vertex"
    /\ \A v \in Vertices : extraCoeffsBuffer[v] # Uninit
    /\ \E garbage \in GarbageValues :
          m_TransportSHCoeffs' = MatrixAdd(m_TransportSHCoeffs, extraCoeffsBuffer, garbage)
    /\ commits' = Append(commits, bounceCount)
    /\ bounceCount' = bounceCount + 1
    /\ extraCoeffsBuffer' = EmptyMatrix
    /\ i' = 0
    /\ pc' = "bounce"
    /\ UNCHANGED <<env, m_Type, m_Bounce, m_SampleCount, m_LightCoeffs, files, images,
                   width, height, channel, loadIdx, ExtraCoeffs, t, p, f, sceneQueried,
                   seedings, samplesDrawn, lastWeight, prevTransport, baseTransport,
                   lastRead, lastCast, liResult>>

NextAnyOrder ==
    \/ ConstructAnyOrder
    \/ OpenOutputs
    \/ LoadCubemapImages
    \/ ProjectLight
    \/ ProjectTransport
    \/ TransportDone
    \/ BounceBegin
    \/ VertexBeginAnyOrder
    \/ SampleAnyOrder
    \/ VertexEnd
    \/ CommitAnyOrder
    \/ SaveFace
    \/ Return

SpecAnyOrder == Init /\ [][NextAnyOrder]_vars

\* ------------------------------------------------------------------------
\* A scene with a second mesh
\* ------------------------------------------------------------------------
\* scene->getMeshes()[1]: six vertices and one triangle, on its vertices 3, 4
\* and 5.  It lies where only the camera sees it: no ray from a vertex of
\* mesh 0 reaches it.
OtherMeshIndices == Arr(<< Arr(<<3, 4, 5>>) >>)

RayToOtherMesh == Ray3f(CameraPosition, Arr(<<1, 0, 0 - 1>>))

\* scene->rayIntersect(ray, its) on the scene of the two meshes: tri_index is
\* the index triple of the triangle hit, in the mesh it belongs to
rayIntersectTwoMeshes(ray) ==
    IF ray = RayToOtherMesh
    THEN [hit |-> TRUE, tri_index |-> OtherMeshIndices[0],
          bary |-> Arr(<<Quot(2 * Unit, 8), Quot(3 * Unit, 8), Quot(3 * Unit, 8)>>)]
    ELSE rayIntersect(ray)

\* m_TransportSHCoeffs with the columns col(idx) gives for the indices of its
\* past its last column: whatever lies there
ReadPastEnd(transport, its, garbage) ==
    [v \in Vertices \cup {its.tri_index[k] : k \in 0..2} |->
        IF v \in Vertices THEN transport[v] ELSE [j \in Coeffs |-> garbage]]

\* Li on the scene of the two meshes.  A column index past the last column is
\* undefined behaviour: Eigen's assertion aborts, or the read returns garbage
LiRayTwoMeshes(ray) ==
    /\ pc = "done"
    /\ LET its == rayIntersectTwoMeshes(ray)
       IN  IF ~its.hit
           THEN /\ liResult' = [ray |-> ray, color |-> Color3fZero]
                /\ UNCHANGED pc
           ELSE IF \A k \in 0..2 : its.tri_index[k] \in Vertices
           THEN /\ liResult' = [ray |-> ray,
                                color |-> Radiance(m_LightCoeffs, m_TransportSHCoeffs, its)]
                /\ UNCHANGED pc
           ELSE \/ /\ liResult' = [ray |-> ray, color |-> None]
                   /\ pc' = "abort"
                \/ /\ \E garbage \in GarbageValues :
                         liResult' =
                            [ray |-> ray,
                             color |-> Radiance(m_LightCoeffs,
                                                ReadPastEnd(m_TransportSHCoeffs, its, garbage),
                                                its)]
                   /\ UNCHANGED pc
    /\ sceneQueried' = TRUE
    /\ UNCHANGED <<env, members, files, locals, seedings, samplesDrawn, lastWeight,
                   prevTransport, baseTransport, lastRead, lastCast, commits>>

LiTwoMeshes ==
    \E ray \in {Ray3f(CameraPosition, dir) : dir \in CameraRays} \cup {RayToOtherMesh} :
        LiRayTwoMeshes(ray)

NextTwoMeshes ==
    \/ ConstructTwoRuns
    \/ OpenOutputs
    \/ LoadCubemapImages
    \/ ProjectLight
    \/ ProjectTransport
    \/ TransportDone
    \/ BounceBegin
    \/ VertexBegin
    \/ BounceSample
    \/ VertexEnd
    \/ Commit
    \/ SaveFace
    \/ Return
    \/ LiTwoMeshes

SpecTwoMeshes == Init /\ [][NextTwoMeshes]_vars

\* ------------------------------------------------------------------------
\* Properties
\* ------------------------------------------------------------------------
InBounce == pc \in {"vertex", "sample"}

\* C1 (double buffering).  While a bounce is being computed the running
\* matrix is the one the bounce began with, and the columns a sample reads
\* are columns of that matrix; the matrix changes in a bounce only in the step
\* that ends it, which adds the whole buffer, entry by entry.
ReadsPreBounce ==
    InBounce =>
        /\ m_TransportSHCoeffs = prevTransport
        /\ lastRead # None =>
              \A k \in 0..2 : lastRead.cols[k] = prevTransport[lastRead.idx[k]]

CommitOnce ==
    InBounce =>
        \/ m_TransportSHCoeffs' = m_TransportSHCoeffs
        \/ /\ pc' = "bounce"
           /\ \A v \in Vertices : \A j \in Coeffs :
                 m_TransportSHCoeffs'[v][j] = m_TransportSHCoeffs[v][j] + extraCoeffsBuffer[v][j]

DoubleBuffering == []ReadsPreBounce /\ [][CommitOnce]_vars

\* A sample of the last vertex of the second bounce has read columns, while a
\* contribution of vertex 0 waits in the buffer
DoubleBufferingWitness ==
    /\ pc = "vertex"
    /\ i = VertexCount
    /\ bounceCount = 2
    /\ lastRead # None
    /\ extraCoeffsBuffer[0] # ZeroCoeffs
    /\ prevTransport # baseTransport

\* C2 (monotonicity).  For every vertex the 0th-order coefficient of the
\* running matrix is at least what it was when the last bounce began, that is
\* after the bounce before it (the base pass for the first bounce).
Monotonicity ==
    prevTransport # None =>
        \A v \in Vertices : m_TransportSHCoeffs[v][0] >= prevTransport[v][0]

\* The second bounce is committed and has raised a 0th-order coefficient
MonotonicityWitness ==
    /\ commits = <<1, 2>>
    /\ \E v \in Vertices : m_TransportSHCoeffs[v][0] > prevTransport[v][0]
    /\ \E v \in Vertices : prevTransport[v][0] > baseTransport[v][0]

\* C3 (unrecognized policy).  A type other than the three policies ends the
\* constructor with the exception, and nothing has been done then: no image
\* loaded, no file of the cubemap directory read, no scene query, no
\* coefficient, no output file opened.
KnownPolicies == {"unshadowed", "shadowed", "interreflection"}

UnknownPolicyIsFatal ==
    /\ (props # None /\ props.type \notin KnownPolicies) => pc = "NoriException"
    /\ pc = "NoriException" =>
          /\ props.type \notin KnownPolicies
          /\ images = NoImages
          /\ \A k \in 0..5 : cubemapDir[k] = Unread
          /\ ~sceneQueried
          /\ m_LightCoeffs = EmptyMatrix
          /\ m_TransportSHCoeffs = EmptyMatrix
          /\ lightFout = NotOpened
          /\ fout = NotOpened

UnknownPolicyWitness == pc = "NoriException" /\ props.type = "pathtracer"

\* C4 (no partial output on a fatal asset error).  When LoadCubemapImages
\* exits, neither light.txt nor transport.txt has been created or truncated.
NoOutputOnAssetError == pc = "exit" => (lightFout = NotOpened /\ fout = NotOpened)

\* C5 (bounce sequencing).  The commits are those of bounces 1, 2, ... in
\* that order, a bounce is computed only when all the bounces before it are
\* committed, and rows of the transport file exist only after the last
\* commit: B commits under Interreflection, none under the other policies,
\* whose persisted matrix is that of the base pass whatever props.bounce is.
RowsWritten == fout # NotOpened /\ Len(fout) > 1

BounceSequencing ==
    /\ \A k \in 1..Len(commits) : commits[k] = k
    /\ InBounce => Len(commits) = bounceCount - 1
    /\ RowsWritten => pc \in {"save", "done"}
    /\ pc \in {"save", "done"} =>
          IF m_Type = "Interreflection"
          THEN Len(commits) = m_Bounce /\ m_Bounce = props.bounce
          ELSE /\ commits = <<>>
               /\ m_TransportSHCoeffs = baseTransport
               /\ prevTransport = None

\* Two bounces were asked for, both are committed and the file is complete
BounceSequencingWitness ==
    /\ pc = "done"
    /\ props.bounce = 2
    /\ commits = <<1, 2>>
    /\ Len(fout) = 1 + 3 * TriangleCount

\* C6 (immutability after precompute).  From the last commit on no step
\* changes m_LightCoeffs or m_TransportSHCoeffs, a call of Li included; and
\* m_LightCoeffs changes in one step only, the one that assigns it from the
\* cubemap projection while it is still empty.
FrozenAfterCommit ==
    /\ pc \in {"save", "done"} => UNCHANGED <<m_LightCoeffs, m_TransportSHCoeffs>>
    /\ m_LightCoeffs' # m_LightCoeffs => (pc = "load" /\ m_LightCoeffs = EmptyMatrix)

Immutability == [][FrozenAfterCommit]_vars

\* Li has answered a ray that hits, after two committed bounces
ImmutabilityWitness ==
    /\ pc = "done"
    /\ liResult # None
    /\ rayIntersect(liResult.ray).hit
    /\ commits = <<1, 2>>
    /\ m_LightCoeffs # EmptyMatrix

\* C7 (runtime reconstruction).  The colour Li returns is zero when the ray
\* hits nothing; otherwise each channel c is
\* w0 * dot(L[c], T[i0]) + w1 * dot(L[c], T[i1]) + w2 * dot(L[c], T[i2]).
LightDotTransport(c, v) ==
    FMul(m_LightCoeffs[c][0], m_TransportSHCoeffs[v][0])
    + FMul(m_LightCoeffs[c][1], m_TransportSHCoeffs[v][1])
    + FMul(m_LightCoeffs[c][2], m_TransportSHCoeffs[v][2])
    + FMul(m_LightCoeffs[c][3], m_TransportSHCoeffs[v][3])
    + FMul(m_LightCoeffs[c][4], m_TransportSHCoeffs[v][4])
    + FMul(m_LightCoeffs[c][5], m_TransportSHCoeffs[v][5])
    + FMul(m_LightCoeffs[c][6], m_TransportSHCoeffs[v][6])
    + FMul(m_LightCoeffs[c][7], m_TransportSHCoeffs[v][7])
    + FMul(m_LightCoeffs[c][8], m_TransportSHCoeffs[v][8])

LiReconstruction ==
    liResult # None =>
        LET hit == rayIntersect(liResult.ray)
        IN  IF ~hit.hit
            THEN \A c \in 0..2 : liResult.color[c] = 0
            ELSE \A c \in 0..2 :
                    liResult.color[c] =
                        FMul(hit.bary[0], LightDotTransport(c, hit.tri_index[0]))
                        + FMul(hit.bary[1], LightDotTransport(c, hit.tri_index[1]))
                        + FMul(hit.bary[2], LightDotTransport(c, hit.tri_index[2]))

\* Li has answered a ray that hits a triangle whose three columns differ,
\* with three positive weights
LiReconstructionWitness ==
    /\ liResult # None
    /\ LET hit == rayIntersect(liResult.ray)
       IN  /\ hit.hit
           /\ \A k \in 0..2 : hit.bary[k] > 0
           /\ m_TransportSHCoeffs[hit.tri_index[0]] # m_TransportSHCoeffs[hit.tri_index[1]]
           /\ m_TransportSHCoeffs[hit.tri_index[1]] # m_TransportSHCoeffs[hit.tri_index[2]]
    /\ liResult.color # Color3fZero

\* C8 (transport file layout).  The first line is the vertex count; the
\* complete file has 3 lines per triangle after it, in triangle order, line k
\* of triangle f being the 9 coefficients 0..8 of the column of vertex F(k,f);
\* so the lines of one vertex are the same in every triangle that has it.
LineOf(face, k) == fout[2 + 3 * face + k]

TransportFileLayout ==
    /\ (fout # NotOpened /\ Len(fout) >= 1) => fout[1] = <<[mant |-> VertexCount, exp |-> 0]>>
    /\ pc = "done" =>
          /\ Len(fout) = 1 + 3 * TriangleCount
          /\ \A face \in DOMAIN MeshIndices : \A k \in 0..2 :
                /\ Len(LineOf(face, k)) = 9
                /\ \A j \in 0..8 :
                      LineOf(face, k)[j + 1] =
                          FormatFloat(m_TransportSHCoeffs[MeshIndices[face][k]][j])
          /\ \A fa, fb \in DOMAIN MeshIndices : \A ka, kb \in 0..2 :
                MeshIndices[fa][ka] = MeshIndices[fb][kb] => LineOf(fa, ka) = LineOf(fb, kb)

\* The complete file of an interreflection run: vertex 0 is line 0 of
\* triangle 0 and line 2 of triangle 1, and the lines of triangle 0 differ
TransportFileLayoutWitness ==
    /\ pc = "done"
    /\ commits # <<>>
    /\ MeshIndices[0][0] = MeshIndices[1][2]
    /\ LineOf(0, 0) = LineOf(1, 2)
    /\ LineOf(0, 0) # LineOf(0, 1)
    /\ LineOf(0, 1) # LineOf(0, 2)

\* C9 (weight of the bounce accumulator), as the specification states it: the
\* divisor of the weight is the configured sample count N, and N is the
\* number of directions drawn for the vertex in the bounce.
WeightIsFourPiOverN ==
    lastWeight # None =>
        /\ lastWeight.div = m_SampleCount
        /\ lastWeight.samples = m_SampleCount

\* C9, amended: the column stored in the buffer is the accumulator scaled by
\* 4 pi / sample_side^2 with sample_side = floor(sqrt(N)); sample_side^2 is
\* the number of directions drawn for the vertex in the bounce, and it is N
\* exactly when N is a perfect square.
IsSquare(n) == \E s \in 0..n : s * s = n

WeightIsFourPiOverSamplesDrawn ==
    (lastWeight # None /\ InBounce /\ i >= 1) =>
        /\ lastWeight.num = FourPi
        /\ lastWeight.div = lastWeight.samples
        /\ \E s \in 1..m_SampleCount :
              /\ s * s <= m_SampleCount
              /\ (s + 1) * (s + 1) > m_SampleCount
              /\ lastWeight.div = s * s
        /\ (lastWeight.div = m_SampleCount) <=> IsSquare(m_SampleCount)
        /\ \A j \in Coeffs :
              extraCoeffsBuffer[i - 1][j] =
                  FMul(lastWeight.extra[j], Quot(FourPi, lastWeight.samples))

\* A vertex is finished with N = 3: one direction drawn, divisor 1
WeightWitness ==
    /\ lastWeight # None
    /\ InBounce
    /\ i >= 1
    /\ m_SampleCount = 3
    /\ lastWeight.samples = 1
    /\ lastWeight.extra # ZeroCoeffs

\* C10 (determinism).  A second run on the same mesh, cubemap and properties,
\* whose base pass came out as in the first run, writes the same light file
\* and the same transport file, and seeds at most one generator.
Determinism ==
    (run = 2 /\ pc = "done" /\ baseTransport = firstRun.base) =>
        /\ lightFout = firstRun.light
        /\ fout = firstRun.trans
        /\ seedings <= 1

\* C11 (shadowed transport function).  Under Shadowed, and in the base pass
\* of Interreflection, the column projected for a vertex is the projection of
\* the function that is cos(theta) where cos(theta) > 0 and the ray from the
\* vertex reports no hit, and 0 elsewhere; so a vertex all of whose possible
\* sample directions have cos(theta) <= 0 or are blocked has an all-zero
\* column in the base pass.
UsesVisibility == m_Type \in {"Shadowed", "Interreflection"}

ShadowedValue(v, wi) ==
    LET cosTheta == Cosain(wi, VertexNormals[v])
    IN  IF cosTheta > 0 /\ ~rayIntersect(<<v, wi>>).hit THEN cosTheta ELSE 0

CellDir(cell, seedOf) == SampleDir(cell[1], cell[2], seedOf[cell], SampleSide(m_SampleCount))

RECURSIVE ShadowedSum(_, _, _, _)
ShadowedSum(v, j, seedOf, cells) ==
    IF cells = {} THEN 0
    ELSE LET cell == CHOOSE c \in cells : TRUE
         IN  FMul(EvalSH(j, CellDir(cell, seedOf)), ShadowedValue(v, CellDir(cell, seedOf)))
             + ShadowedSum(v, j, seedOf, cells \ {cell})

ShadowedColumn(v, seedOf) ==
    [j \in Coeffs |->
        FMul(ShadowedSum(v, j, seedOf, DOMAIN seedOf), Quot(FourPi, m_SampleCount))]

ShadowedStep ==
    (pc = "transport" /\ UsesVisibility /\ i < VertexCount /\ i' = i + 1) =>
        \E seedOf \in [Cells(SampleSide(m_SampleCount)) -> Seeds] :
            m_TransportSHCoeffs'[i] = ShadowedColumn(i, seedOf)

FullyOccluded(v) ==
    \A cell \in Cells(SampleSide(m_SampleCount)) : \A seed \in Seeds :
        LET wi == SampleDir(cell[1], cell[2], seed, SampleSide(m_SampleCount))
        IN  Cosain(wi, VertexNormals[v]) <= 0 \/ rayIntersect(<<v, wi>>).hit

ShadowedBoundary ==
    (UsesVisibility /\ baseTransport # None) =>
        \A v \in Vertices : FullyOccluded(v) => baseTransport[v] = ZeroCoeffs

ShadowedTransport == []ShadowedBoundary /\ [][ShadowedStep]_vars

\* The base pass of a shadowed run with 4 samples is over: vertex 0 is fully
\* occluded and has a zero column, vertex 1 sees the sky and has not
ShadowedTransportWitness ==
    /\ m_Type = "Shadowed"
    /\ m_SampleCount = 4
    /\ baseTransport # None
    /\ FullyOccluded(0)
    /\ baseTransport[0] = ZeroCoeffs
    /\ ~FullyOccluded(1)
    /\ baseTransport[1] # ZeroCoeffs

\* C12 (unshadowed: no scene query).  Under Unshadowed the column projected
\* for a vertex is the projection of max(0, cos(theta)), and from the
\* constructor to the return of preprocess scene->rayIntersect is not called.
UnshadowedValue(v, wi) ==
    LET cosTheta == Cosain(wi, VertexNormals[v])
    IN  IF cosTheta > 0 THEN cosTheta ELSE 0

RECURSIVE UnshadowedSum(_, _, _, _)
UnshadowedSum(v, j, seedOf, cells) ==
    IF cells = {} THEN 0
    ELSE LET cell == CHOOSE c \in cells : TRUE
         IN  FMul(EvalSH(j, CellDir(cell, seedOf)), UnshadowedValue(v, CellDir(cell, seedOf)))
             + UnshadowedSum(v, j, seedOf, cells \ {cell})

UnshadowedColumn(v, seedOf) ==
    [j \in Coeffs |->
        FMul(UnshadowedSum(v, j, seedOf, DOMAIN seedOf), Quot(FourPi, m_SampleCount))]

UnshadowedStep ==
    (pc = "transport" /\ m_Type = "Unshadowed" /\ i < VertexCount /\ i' = i + 1) =>
        \E seedOf \in [Cells(SampleSide(m_SampleCount)) -> Seeds] :
            m_TransportSHCoeffs'[i] = UnshadowedColumn(i, seedOf)

NoQueryInPreprocess == (m_Type = "Unshadowed" /\ liResult = None) => ~sceneQueried

UnshadowedNoQuery == []NoQueryInPreprocess /\ [][UnshadowedStep]_vars

\* preprocess of an unshadowed run has returned without a query; vertex 0,
\* which every ray would find blocked, has a non-zero column
UnshadowedNoQueryWitness ==
    /\ m_Type = "Unshadowed"
    /\ pc = "done"
    /\ liResult = None
    /\ ~sceneQueried
    /\ FullyOccluded(0)
    /\ m_TransportSHCoeffs[0] # ZeroCoeffs

\* C13 (bounce buffer at commit), as the specification states it: the buffer
\* of a bounce starts from zero, so every column not yet written is zero, and
\* at the commit no entry is unassigned and a vertex none of whose samples can
\* hit has a zero column.
AtCommit == pc = "vertex" /\ i = VertexCount

NeverHits(v) ==
    \A cell \in Cells(SampleSide(m_SampleCount)) : \A seed \in Seeds :
        LET wi == SampleDir(cell[1], cell[2], seed, SampleSide(m_SampleCount))
        IN  ~(Cosain(wi, VertexNormals[v]) > 0 /\ rayIntersect(<<v, wi>>).hit)

BufferStartsFromZero ==
    /\ InBounce => \A v \in Vertices : v >= i => extraCoeffsBuffer[v] = ZeroCoeffs
    /\ AtCommit => \A v \in Vertices :
          /\ extraCoeffsBuffer[v] # Uninit
          /\ NeverHits(v) => extraCoeffsBuffer[v] = ZeroCoeffs

\* C13, amended: the buffer is declared anew in every bounce with its entries
\* unassigned; the accumulator of a vertex starts from zero and its scaled
\* value is assigned to the vertex's column, the other columns staying as
\* they are; so at the commit no entry is unassigned, every column is the
\* bounce's own contribution, and a vertex none of whose samples can hit has
\* a zero column.
BufferColumns ==
    /\ InBounce => \A v \in Vertices :
          IF v < i THEN extraCoeffsBuffer[v] # Uninit ELSE extraCoeffsBuffer[v] = Uninit
    /\ (pc = "sample" /\ samplesDrawn = 0) => ExtraCoeffs = ZeroCoeffs
    /\ AtCommit => \A v \in Vertices :
          /\ extraCoeffsBuffer[v] # Uninit
          /\ NeverHits(v) => extraCoeffsBuffer[v] = ZeroCoeffs

ColumnAssigned ==
    (pc = "sample" /\ pc' = "vertex") =>
        /\ \A j \in Coeffs :
              extraCoeffsBuffer'[i][j] = FMul(ExtraCoeffs[j], Quot(FourPi, samplesDrawn))
        /\ \A v \in Vertices \ {i} : extraCoeffsBuffer'[v] = extraCoeffsBuffer[v]

BufferAtCommit == []BufferColumns /\ [][ColumnAssigned]_vars

\* The second bounce is about to be committed: vertex 1, which no ray from it
\* hits, has a zero column, vertex 0 has not
BufferAtCommitWitness ==
    /\ AtCommit
    /\ bounceCount = 2
    /\ NeverHits(1)
    /\ extraCoeffsBuffer[1] = ZeroCoeffs
    /\ extraCoeffsBuffer[0] # ZeroCoeffs

\* C14 (per-sample rule of the bounce accumulator).  The ray of a sample is
\* cast exactly when cos(theta) > 0.  A sample with cos(theta) <= 0 or whose
\* ray reports no hit leaves the accumulator of the vertex as it is; a sample
\* that hits adds, for each coefficient j,
\* cos(theta) * (w0 * prev[i0][j] + w1 * prev[i1][j] + w2 * prev[i2][j]);
\* no sample changes the buffer or the running matrix, and the run goes on.
CastOnlyAboveHorizon ==
    (pc = "sample" /\ lastCast # None) =>
        (lastCast[2] <=> Cosain(lastCast[1], VertexNormals[i]) > 0)

SampleContribution(v, wi, j) ==
    LET cosTheta == Cosain(wi, VertexNormals[v])
        hit == rayIntersect(<<v, wi>>)
    IN  IF cosTheta <= 0 \/ ~hit.hit THEN 0
        ELSE FMul(FMul(hit.bary[0], prevTransport[hit.tri_index[0]][j])
                  + FMul(hit.bary[1], prevTransport[hit.tri_index[1]][j])
                  + FMul(hit.bary[2], prevTransport[hit.tri_index[2]][j]),
                  cosTheta)

SampleStep ==
    (pc = "sample" /\ samplesDrawn' = samplesDrawn + 1) =>
        /\ pc' = "sample"
        /\ \A j \in Coeffs :
              ExtraCoeffs'[j] = ExtraCoeffs[j] + SampleContribution(i, lastCast'[1], j)
        /\ UNCHANGED <<extraCoeffsBuffer, m_TransportSHCoeffs, i>>

PerSampleRule == []CastOnlyAboveHorizon /\ [][SampleStep]_vars

\* A sample of vertex 2 in the second bounce was cast, hit, and the
\* accumulator is no longer zero
PerSampleRuleWitness ==
    /\ pc = "sample"
    /\ bounceCount = 2
    /\ lastCast # None
    /\ lastCast[2]
    /\ rayIntersect(<<i, lastCast[1]>>).hit
    /\ \E j \in Coeffs : SampleContribution(i, lastCast[1], j) # 0
    /\ ExtraCoeffs # ZeroCoeffs

\* C15 (vertex-order independence).  Whatever the order in which the vertices
\* of a bounce are processed, with the same sample directions per vertex, the
\* matrix committed at the end of the bounce is the pre-bounce matrix plus,
\* for each vertex, the weighted sum of that vertex's own samples taken on the
\* pre-bounce matrix; and the commit comes only when every vertex is done.
RECURSIVE AccumulatedRef(_, _, _, _)
AccumulatedRef(bounce, v, n, j) ==
    IF n = 0 THEN 0
    ELSE LET side == SampleSide(m_SampleCount)
             cellT == (n - 1) \div side
             cellP == (n - 1) % side
             wi == SampleDir(cellT, cellP, SeedAt(bounce, v, cellT, cellP), side)
         IN  AccumulatedRef(bounce, v, n - 1, j) + SampleContribution(v, wi, j)

ColumnRef(bounce, v, j) ==
    LET drawn == SampleSide(m_SampleCount) * SampleSide(m_SampleCount)
    IN  FMul(AccumulatedRef(bounce, v, drawn, j), Quot(FourPi, drawn))

CommittedRef(bounce, v, j) == prevTransport[v][j] + ColumnRef(bounce, v, j)

AllVerticesDone == \A v \in Vertices : extraCoeffsBuffer[v] # Uninit

AxisNamed(name) ==
    CASE name = "negx.jpg" -> Arr(<<0 - 1, 0, 0>>)
      [] name = "posx.jpg" -> Arr(<<1, 0, 0>>)
      [] name = "negy.jpg" -> Arr(<<0, 0 - 1, 0>>)
      [] name = "posy.jpg" -> Arr(<<0, 1, 0>>)
      [] name = "negz.jpg" -> Arr(<<0, 0, 0 - 1>>)
      [] name = "posz.jpg" -> Arr(<<0, 0, 1>>)

SlotNamedAfter(axis) == CHOOSE k \in 0..5 : AxisNamed(cubemapNames[k]) = axis

ImagesByBasis == [k \in 0..5 |-> images[SlotNamedAfter(cubemapFaceDirections[k][2])]]

FaceBasisPairing ==
    /\ \A k \in 0..5 :
          images[k] # Null => cubemapFaceDirections[k][2] = AxisNamed(cubemapNames[k])
    /\ (pc = "transport" /\ i = 0) =>
          m_LightCoeffs = LightMatrix(PrecomputeCubemapSH(ImagesByBasis, width, height, channel))

\* C17 (column-index bounds).  Every vertex index used to read a column of
\* the transport matrix is an index of a vertex of mesh 0, for which the
\* matrix was sized: the indices of the hit of a bounce sample, those of the
\* hit Li gets, and those of the triangle table written to the file; also in
\* a scene of more than one mesh.
ColumnIndexBounds ==
    /\ lastRead # None => \A k \in 0..2 : lastRead.idx[k] \in Vertices
    /\ liResult # None =>
          LET hit == rayIntersectTwoMeshes(liResult.ray)
          IN  hit.hit => \A k \in 0..2 : hit.tri_index[k] \in DOMAIN m_TransportSHCoeffs
    /\ pc \in {"save", "done"} =>
          \A face \in 0..(f - 1) : \A k \in 0..2 :
              MeshIndices[face][k] \in DOMAIN m_TransportSHCoeffs

====
